---- MODULE Spec2Model ----
(***************************************************************************)
(* Validation of an ink! chain extension trait definition, as done by      *)
(* ChainExtension::try_from in crates/lang/ir/src/ir/chain_extension.rs.   *)
(*                                                                         *)
(* The input is a parsed trait (syn::ItemTrait).  A validation run is the  *)
(* straight-line sequence                                                  *)
(*     ensure_no_ink_identifiers ; analyse_properties ; analyse_items      *)
(* where analyse_items loops once over the trait items, calling            *)
(* analyse_methods on every method and recording its id in seen_ids.       *)
(* Every run has its own locals (methods, seen_ids); Runs holds two runs   *)
(* over the same input so that two validations can be compared.            *)
(***************************************************************************)
EXTENDS Integers, Sequences, FiniteSets, TLC

\* ------------------------------------------------------------------ bounds

\* An input has size Len(items) + (number of deviations from a valid
\* declaration); all inputs up to this size are explored.
MaxSize == 4

\* Longest list of ink! attribute arguments on one method.
MaxAttrs == 2

\* The extension ids that occur in inputs (u32 values; only equality is used).
Ids == {3, 5}

\* Two validation runs over the same input.
Runs == {1, 2}

\* ------------------------------------------------------------------ input

\* Source locations.  item = 0 is the trait itself, item = i its i-th member;
\* part names the spanned element inside it.
Span(i, p) == [item |-> i, part |-> p]

NoSpan == Span(0, "none")

\* The arguments of the ink! attributes of a method, flattened in order.
\*   Extension : #[ink(function = N)]
\*   Other     : another well-formed ink! argument (message, payable, ...)
\*   Malformed : an ink! attribute that does not parse
AttrArgs ==
    [kind : {"Extension"}, id : Ids]
        \cup {[kind |-> "Other", id |-> 0], [kind |-> "Malformed", id |-> 0]}

AttrLists == UNION {[1..n -> AttrArgs] : n \in 0..MaxAttrs}

\* The fields of syn::TraitItemMethod that analyse_methods reads.
MethodModifiers ==
    {"default", "constness", "asyncness", "unsafety", "abi", "variadic", "generics"}

\* syn::TraitItem variants other than Method ("Unknown": a future variant).
NonMethodKinds == {"Const", "Macro", "Type", "Verbatim", "Unknown"}

TraitItem(k, F, attrs, recv) ==
    [kind      |-> k,
     default   |-> "default" \in F,
     constness |-> "constness" \in F,
     asyncness |-> "asyncness" \in F,
     unsafety  |-> "unsafety" \in F,
     abi       |-> "abi" \in F,
     variadic  |-> "variadic" \in F,
     generics  |-> "generics" \in F,
     attrs     |-> attrs,
     receiver  |-> recv]

TraitItems ==
    {TraitItem(k, {}, <<>>, FALSE) : k \in NonMethodKinds}
        \cup {TraitItem("Method", F, a, r) :
                F \in SUBSET MethodModifiers, a \in AttrLists, r \in BOOLEAN}

Count(b) == IF b THEN 1 ELSE 0

NumExtension(attrs) ==
    Cardinality({k \in DOMAIN attrs : attrs[k].kind = "Extension"})

\* Deviations of an attribute list from "exactly one function = N".
AttrDeviations(attrs) ==
    IF attrs = <<>> THEN 1
    ELSE (Len(attrs) - NumExtension(attrs))
            + (IF NumExtension(attrs) > 1 THEN NumExtension(attrs) - 1 ELSE 0)

\* Deviations of a member from a valid chain extension method.
ItemDeviations(m) ==
    IF m.kind # "Method" THEN 1
    ELSE Count(m.default) + Count(m.constness) + Count(m.asyncness)
            + Count(m.unsafety) + Count(m.abi) + Count(m.variadic)
            + Count(m.generics) + Count(m.receiver) + AttrDeviations(m.attrs)

\* ItemsDeviating[d + 1]: the members with exactly d deviations, d < MaxSize.
RECURSIVE ByDeviations(_)
ByDeviations(T) ==
    IF Len(T) = MaxSize THEN T
    ELSE ByDeviations(Append(T, {x \in TraitItems : ItemDeviations(x) = Len(T)}))

ItemsDeviating == ByDeviations(<<>>)

TraitProperties == {"unsafety", "auto_token", "generics", "vis", "supertraits"}

\* syn::ItemTrait: the fields analyse_properties reads (vis_public: the
\* visibility is `pub`), whether some identifier of the declaration starts
\* with `__ink_`, and the members.
ItemTrait(P, ink, items) ==
    [unsafety    |-> "unsafety" \in P,
     auto_token  |-> "auto_token" \in P,
     generics    |-> "generics" \in P,
     vis_public  |-> "vis" \notin P,
     supertraits |-> "supertraits" \in P,
     ink_ident   |-> ink,
     items       |-> items]

TraitsWithin(b) ==
    {h \in (SUBSET TraitProperties) \X BOOLEAN : Cardinality(h[1]) + Count(h[2]) <= b}

\* ----------------------------------------------------------------- results

Error(msg, span) == [msg |-> msg, span |-> span, previous |-> NoSpan]

\* ExtError::into_combine: the second error is attached to the first.
IntoCombine(err, other) == [err EXCEPT !.previous = other.span]

NoError == Error("", NoSpan)

NoMethod == [item |-> TraitItem("Method", {}, <<>>, FALSE), span |-> NoSpan, id |-> 0]

\* Result<ChainExtensionMethod> and Result<()>.
Ok(method) == [ok |-> TRUE, method |-> method, err |-> NoError]

Err(err) == [ok |-> FALSE, method |-> NoMethod, err |-> err]

\* ---------------------------------------------------------------- variables

VARIABLES
    item_trait,   \* the trait under validation (never modified)
    pc,           \* pc[r]: where run r is
    idx,          \* idx[r]: position of the `for` loop of analyse_items
    methods,      \* methods[r]: the Vec built by analyse_items
    seen_ids,     \* seen_ids[r]: the HashMap ExtensionId -> Span
    result,       \* result[r]: what try_from returned
    visited       \* visited[r]: the members the loop has matched on, in order

vars == <<item_trait, pc, idx, methods, seen_ids, result, visited>>

NoResult == [tag |-> "none", methods |-> <<>>, err |-> NoError]

EmptyMap == [k \in {} |-> NoSpan]

\* The input is the trait with properties h and the members `items`, or one
\* with more members after them, as far as the size left allows.
RECURSIVE IsInput(_, _, _)
IsInput(h, items, budget) ==
    \/ item_trait = ItemTrait(h[1], h[2], items)
    \/ \E d \in 0..(budget - 1) : \E m \in ItemsDeviating[d + 1] :
          IsInput(h, Append(items, m), budget - 1 - d)

Init ==
    /\ \E h \in TraitsWithin(MaxSize) :
          IsInput(h, <<>>, MaxSize - Cardinality(h[1]) - Count(h[2]))
    /\ pc = [r \in Runs |-> "try_from"]
    /\ idx = [r \in Runs |-> 0]
    /\ methods = [r \in Runs |-> <<>>]
    /\ seen_ids = [r \in Runs |-> EmptyMap]
    /\ result = [r \in Runs |-> NoResult]
    /\ visited = [r \in Runs |-> <<>>]

\* ------------------------------------------------- ensure_no_ink_identifiers

\* idents_lint::ensure_no_ink_identifiers: no identifier of the declaration
\* may start with `__ink_`.
ensure_no_ink_identifiers(t) ==
    IF t.ink_ident
    THEN Err(Error("encountered invalid identifier starting with __ink_",
                   Span(0, "ident")))
    ELSE Ok(NoMethod)

\* -------------------------------------------------------- analyse_properties

\* Variant: the supertraits check left out.
SupertraitsAllowedM(t) ==
    IF t.unsafety
    THEN Err(Error("ink! chain extensions cannot be unsafe", Span(0, "unsafety")))
    ELSE IF t.auto_token
    THEN Err(Error("ink! chain extensions cannot be automatically implemented traits",
                   Span(0, "auto_token")))
    ELSE IF t.generics
    THEN Err(Error("ink! chain extensions must not be generic", Span(0, "generics")))
    ELSE IF ~t.vis_public
    THEN Err(Error("ink! chain extensions must have public visibility", Span(0, "vis")))
    ELSE Ok(NoMethod)

analyse_properties(t) ==
    IF t.unsafety
    THEN Err(Error("ink! chain extensions cannot be unsafe", Span(0, "unsafety")))
    ELSE IF t.auto_token
    THEN Err(Error("ink! chain extensions cannot be automatically implemented traits",
                   Span(0, "auto_token")))
    ELSE IF t.generics
    THEN Err(Error("ink! chain extensions must not be generic", Span(0, "generics")))
    ELSE IF ~t.vis_public
    THEN Err(Error("ink! chain extensions must have public visibility", Span(0, "vis")))
    ELSE IF t.supertraits
    THEN Err(Error("ink! chain extensions with supertraits are not supported, yet",
                   Span(0, "supertraits")))
    ELSE Ok(NoMethod)

\* ----------------------------------------------------------- analyse_methods

\* ir::first_ink_attribute(..)?.map(|attr| attr.first().kind().clone()):
\* the first argument of the first ink! attribute, if there is one.
NoArg == [kind |-> "None", id |-> 0]

first_ink_attribute(attrs, i) ==
    IF attrs = <<>> THEN [ok |-> TRUE, arg |-> NoArg, err |-> NoError]
    ELSE IF attrs[1].kind = "Malformed"
    THEN [ok |-> FALSE, arg |-> NoArg,
          err |-> Error("invalid ink! attribute", Span(i, "attrs"))]
    ELSE [ok |-> TRUE, arg |-> attrs[1], err |-> NoError]

\* ir::sanitize_attributes with first = Extension and every argument that is
\* not an Extension conflicting: exactly one function = N and nothing else.
sanitize_attributes(attrs, i) ==
    IF \E k \in DOMAIN attrs : attrs[k].kind = "Malformed"
    THEN Err(Error("invalid ink! attribute", Span(i, "attrs")))
    ELSE IF NumExtension(attrs) > 1
    THEN Err(Error("encountered duplicate ink! attribute", Span(i, "attrs")))
    ELSE IF \E k \in DOMAIN attrs : attrs[k].kind # "Extension"
    THEN Err(Error("encountered conflicting ink! attribute argument", Span(i, "attrs")))
    ELSE Ok(NoMethod)

\* ExtensionId::from_u32(extension.id) paired with a clone of the method.
ChainExtensionMethod(item_method, i, id) ==
    [item |-> item_method, span |-> Span(i, "item"), id |-> id]

\* Variant: the receiver check left out.
ReceiverDroppedM(item_method, i, extension) ==
    LET sanitized == sanitize_attributes(item_method.attrs, i)
    IN  IF ~sanitized.ok THEN sanitized
        ELSE Ok(ChainExtensionMethod(item_method, i, extension.id))

\* Lines 328-349: sanitize the attributes, reject a receiver, build the method.
analyse_chain_extension_method(item_method, i, extension) ==
    LET sanitized == sanitize_attributes(item_method.attrs, i)
    IN  IF ~sanitized.ok THEN sanitized
        ELSE IF item_method.receiver
        THEN Err(Error("ink! chain extension method must not have a self receiver",
                       Span(i, "receiver")))
        ELSE Ok(ChainExtensionMethod(item_method, i, extension.id))

\* Variant: a method without ink! attribute accepted with id 0.
MissingFlagAcceptedM(method, i) ==
    LET first == first_ink_attribute(method.attrs, i)
    IN  IF ~first.ok THEN Err(first.err)
        ELSE IF first.arg.kind = "Extension"
        THEN analyse_chain_extension_method(method, i, first.arg)
        ELSE IF first.arg.kind # "None"
        THEN Err(Error("encountered unsupported ink! attribute for ink! chain extension method. expected #[ink(function = N: usize)] attribute",
                       Span(i, "item")))
        ELSE analyse_chain_extension_method(method, i, [kind |-> "Extension", id |-> 0])

\* The match on the first ink! attribute (lines 303-320).
analyse_method_attribute(method, i) ==
    LET first == first_ink_attribute(method.attrs, i)
    IN  IF ~first.ok THEN Err(first.err)
        ELSE IF first.arg.kind = "Extension"
        THEN analyse_chain_extension_method(method, i, first.arg)
        ELSE IF first.arg.kind # "None"
        THEN Err(Error("encountered unsupported ink! attribute for ink! chain extension method. expected #[ink(function = N: usize)] attribute",
                       Span(i, "item")))
        ELSE Err(Error("missing #[ink(function = N: usize)] flag on ink! chain extension method",
                       Span(i, "item")))

analyse_methods(method, i) ==
    IF method.default
    THEN Err(Error("ink! chain extension methods with default implementations are not supported",
                   Span(i, "default")))
    ELSE IF method.constness
    THEN Err(Error("const ink! chain extension methods are not supported",
                   Span(i, "constness")))
    ELSE IF method.asyncness
    THEN Err(Error("async ink! chain extension methods are not supported",
                   Span(i, "asyncness")))
    ELSE IF method.unsafety
    THEN Err(Error("unsafe ink! chain extension methods are not supported",
                   Span(i, "unsafety")))
    ELSE IF method.abi
    THEN Err(Error("ink! chain extension methods with non default ABI are not supported",
                   Span(i, "abi")))
    ELSE IF method.variadic
    THEN Err(Error("variadic ink! chain extension methods are not supported",
                   Span(i, "variadic")))
    ELSE IF method.generics
    THEN Err(Error("generic ink! chain extension methods are not supported",
                   Span(i, "generics")))
    ELSE analyse_method_attribute(method, i)

\* ------------------------------------------------------------- analyse_items

\* The error of a match arm for a member that is not a method.
UnsupportedItem(trait_item, i) ==
    CASE trait_item.kind = "Const" ->
            Error("associated constants in ink! chain extensions are not supported, yet",
                  Span(i, "item"))
      [] trait_item.kind = "Macro" ->
            Error("macros in ink! chain extensions are not supported", Span(i, "item"))
      [] trait_item.kind = "Type" ->
            Error("associated types in ink! chain extensions are not supported, yet",
                  Span(i, "item"))
      [] trait_item.kind = "Verbatim" ->
            Error("encountered unsupported item in ink! chain extensions", Span(i, "item"))
      [] OTHER ->
            Error("encountered unknown or unsupported item in ink! chain extensions",
                  Span(i, "item"))

\* Variant: the lookup finds nothing.
NeverSeenM(map, id) == [some |-> FALSE, span |-> NoSpan]

\* HashMap::get
HashMapGet(map, id) ==
    IF id \in DOMAIN map THEN [some |-> TRUE, span |-> map[id]]
    ELSE [some |-> FALSE, span |-> NoSpan]

\* Variant: the entry is not stored.
InsertDroppedM(map, id, span) == map

\* HashMap::insert
HashMapInsert(map, id, span) ==
    [k \in DOMAIN map \cup {id} |-> IF k = id THEN span ELSE map[k]]

\* Variant: the method is inserted at the front.
PushFrontM(vec, x) == <<x>> \o vec

\* Vec::push
VecPush(vec, x) == Append(vec, x)

\* Variant: the two locations exchanged.
DuplicateSwappedM(span, previous) ==
    IntoCombine(
        Error("encountered duplicate extension identifiers for the same chain extension",
              previous),
        Error("previous duplicate extension identifier here", span))

\* The duplicate-identifier error (lines 227-233).
DuplicateError(span, previous) ==
    IntoCombine(
        Error("encountered duplicate extension identifiers for the same chain extension",
              span),
        Error("previous duplicate extension identifier here", previous))

\* ------------------------------------------------------------------- actions

\* `return Err(..)` / `?`: the run ends with the error; nothing else is kept.
Fail(r, err) ==
    /\ pc' = [pc EXCEPT ![r] = "done"]
    /\ result' = [result EXCEPT ![r] = [tag |-> "err", methods |-> <<>>, err |-> err]]

\* try_from, line 108.
EnsureNoInkIdentifiers(r) ==
    /\ pc[r] = "try_from"
    /\ LET res == ensure_no_ink_identifiers(item_trait)
       IN  IF res.ok
           THEN /\ pc' = [pc EXCEPT ![r] = "analyse_properties"]
                /\ UNCHANGED result
           ELSE Fail(r, res.err)
    /\ UNCHANGED <<item_trait, idx, methods, seen_ids, visited>>

\* Variant: one registry shared by the runs instead of a fresh one per call.
SharedRegistryM(r) ==
    /\ methods' = [methods EXCEPT ![r] = <<>>]
    /\ seen_ids' = [seen_ids EXCEPT ![r] = seen_ids[CHOOSE o \in Runs : o # r]]
    /\ idx' = [idx EXCEPT ![r] = 1]

\* analyse_items, lines 195-197: fresh locals, the loop starts at the first item.
BeginAnalyseItems(r) ==
    /\ methods' = [methods EXCEPT ![r] = <<>>]
    /\ seen_ids' = [seen_ids EXCEPT ![r] = EmptyMap]
    /\ idx' = [idx EXCEPT ![r] = 1]

\* try_from, lines 109-110: analyse_properties, then entry into analyse_items.
AnalyseProperties(r) ==
    /\ pc[r] = "analyse_properties"
    /\ LET res == analyse_properties(item_trait)
       IN  IF res.ok
           THEN /\ pc' = [pc EXCEPT ![r] = "analyse_items"]
                /\ BeginAnalyseItems(r)
                /\ UNCHANGED result
           ELSE /\ Fail(r, res.err)
                /\ UNCHANGED <<idx, methods, seen_ids>>
    /\ UNCHANGED <<item_trait, visited>>

\* Variant: the loop does not advance.
StayM(i) == i

\* The loop advances to the next item.
NextItem(i) == i + 1

\* Variant: a failing member is skipped instead of ending the run.
SkipFailedM(r) ==
    /\ pc[r] = "analyse_items"
    /\ idx[r] <= Len(item_trait.items)
    /\ LET i == idx[r]
           trait_item == item_trait.items[i]
           res == analyse_methods(trait_item, i)
           accepted == /\ trait_item.kind = "Method"
                       /\ res.ok
                       /\ ~HashMapGet(seen_ids[r], res.method.id).some
       IN  /\ visited' = [visited EXCEPT ![r] = Append(@, i)]
           /\ idx' = [idx EXCEPT ![r] = NextItem(i)]
           /\ seen_ids' = [seen_ids EXCEPT ![r] =
                             IF accepted
                             THEN HashMapInsert(@, res.method.id, res.method.span)
                             ELSE @]
           /\ methods' = [methods EXCEPT ![r] =
                            IF accepted THEN VecPush(@, res.method) ELSE @]
    /\ UNCHANGED <<item_trait, pc, result>>

\* One iteration of the loop of analyse_items (lines 197-245).
AnalyseItem(r) ==
    /\ pc[r] = "analyse_items"
    /\ idx[r] <= Len(item_trait.items)
    /\ LET i == idx[r]
           trait_item == item_trait.items[i]
       IN  /\ visited' = [visited EXCEPT ![r] = Append(@, i)]
           /\ IF trait_item.kind # "Method"
              THEN /\ Fail(r, UnsupportedItem(trait_item, i))
                   /\ UNCHANGED <<idx, methods, seen_ids>>
              ELSE LET res == analyse_methods(trait_item, i)
                       method == res.method
                       method_id == method.id
                       previous == HashMapGet(seen_ids[r], method_id)
                   IN  IF ~res.ok
                       THEN /\ Fail(r, res.err)
                            /\ UNCHANGED <<idx, methods, seen_ids>>
                       ELSE IF previous.some
                       THEN /\ Fail(r, DuplicateError(method.span, previous.span))
                            /\ UNCHANGED <<idx, methods, seen_ids>>
                       ELSE /\ seen_ids' = [seen_ids EXCEPT ![r] =
                                              HashMapInsert(@, method_id, method.span)]
                            /\ methods' = [methods EXCEPT ![r] = VecPush(@, method)]
                            /\ idx' = [idx EXCEPT ![r] = NextItem(i)]
                            /\ UNCHANGED <<pc, result>>
    /\ UNCHANGED item_trait

\* Line 246 and try_from lines 111-114: the loop is over, Ok(Self { item, methods }).
ReturnOk(r) ==
    /\ pc[r] = "analyse_items"
    /\ idx[r] > Len(item_trait.items)
    /\ pc' = [pc EXCEPT ![r] = "done"]
    /\ result' = [result EXCEPT ![r] =
                    [tag |-> "ok", methods |-> methods[r], err |-> NoError]]
    /\ UNCHANGED <<item_trait, idx, methods, seen_ids, visited>>

Run(r) ==
    \/ EnsureNoInkIdentifiers(r)
    \/ AnalyseProperties(r)
    \/ AnalyseItem(r)
    \/ ReturnOk(r)

\* One validation of the input.
Next == Run(1)

Spec == Init /\ [][Next]_vars

\* The same, under the scheduling of straight-line code: a run that can take
\* a step takes it.
FairSpec == Spec /\ WF_vars(Next)

\* Two independent validations of the same input, interleaved in any way.
NextTwice == \E r \in Runs : Run(r)

SpecTwice == Init /\ [][NextTwice]_vars

\* -------------------------------------------------------------- properties
\* What is stated of a validation is stated of run 1; run 2 only acts in
\* SpecTwice.

items == item_trait.items

finished == pc[1] = "done"

\* The five conditions of analyse_properties.
TraitAccepted ==
    /\ ~item_trait.unsafety
    /\ ~item_trait.auto_token
    /\ ~item_trait.generics
    /\ item_trait.vis_public
    /\ ~item_trait.supertraits

\* A method without default body, const, async, unsafe, ABI, variadic or
\* generic parameters.
Unmodified(m) ==
    /\ m.kind = "Method"
    /\ ~m.default /\ ~m.constness /\ ~m.asyncness /\ ~m.unsafety
    /\ ~m.abi /\ ~m.variadic /\ ~m.generics

\* The method carries exactly one function = N.
OneDirective(m) == NumExtension(m.attrs) = 1

\* The method carries function = N and no other ink! attribute argument.
OnlyDirective(m) == Len(m.attrs) = 1 /\ m.attrs[1].kind = "Extension"

\* N of the first function = N of the method.
FunctionId(m) ==
    LET first == CHOOSE k \in DOMAIN m.attrs :
                    /\ m.attrs[k].kind = "Extension"
                    /\ \A j \in 1..(k - 1) : m.attrs[j].kind # "Extension"
    IN  m.attrs[first].id

\* Receiver-less, unmodified methods with one directive each, ids distinct.
MembersAsClaimed ==
    /\ \A i \in DOMAIN items :
          Unmodified(items[i]) /\ ~items[i].receiver /\ OneDirective(items[i])
    /\ \A i, j \in DOMAIN items :
          i # j => FunctionId(items[i]) # FunctionId(items[j])

\* The same, with the directive the only ink! attribute argument of its method.
MembersValid ==
    /\ MembersAsClaimed
    /\ \A i \in DOMAIN items : OnlyDirective(items[i])

\* The returned methods are the members, in declaration order, with their ids.
MethodsAreMembers ==
    /\ result[1].tag = "ok"
    /\ Len(result[1].methods) = Len(items)
    /\ \A i \in DOMAIN items :
          /\ result[1].methods[i].item = items[i]
          /\ result[1].methods[i].span = Span(i, "item")
          /\ result[1].methods[i].id = FunctionId(items[i])

\* C1 as stated: every trait that passes the five property checks and whose
\* members are receiver-less, unmodified methods with exactly one function = N
\* each, ids pairwise distinct, validates, and the methods returned are the
\* members in declaration order with their ids.
C1_AsStated ==
    (finished /\ TraitAccepted /\ MembersAsClaimed) => MethodsAreMembers

\* C1, amended: the same, for traits in which no identifier starts with
\* __ink_ and whose methods carry no ink! attribute argument besides their
\* function = N.
C1_ValidTraitYieldsMembersInOrder ==
    (finished /\ TraitAccepted /\ ~item_trait.ink_ident /\ MembersValid)
        => MethodsAreMembers

\* A valid trait whose methods are declared with descending ids was accepted
\* with its methods in declaration order.
C1_Witness ==
    /\ finished /\ TraitAccepted /\ ~item_trait.ink_ident /\ MembersValid
    /\ Len(items) >= 2
    /\ FunctionId(items[1]) > FunctionId(items[2])
    /\ result[1].tag = "ok"
    /\ result[1].methods[1].id > result[1].methods[2].id

\* C2: the methods of every ChainExtension that validation returns have
\* pairwise distinct ids.
C2_ReturnedIdsDistinct ==
    result[1].tag = "ok" =>
        \A i, j \in DOMAIN result[1].methods :
            i # j => result[1].methods[i].id # result[1].methods[j].id

\* A ChainExtension with two methods was returned.
C2_Witness ==
    /\ result[1].tag = "ok"
    /\ Len(result[1].methods) >= 2

\* Valid but for ids that occur twice.
ValidButDuplicates ==
    /\ TraitAccepted /\ ~item_trait.ink_ident
    /\ \A i \in DOMAIN items :
          Unmodified(items[i]) /\ ~items[i].receiver /\ OnlyDirective(items[i])
    /\ \E i, j \in DOMAIN items : i < j /\ FunctionId(items[i]) = FunctionId(items[j])

\* Member j repeats the id of an earlier member.
Repeats(j) == \E i \in 1..(j - 1) : FunctionId(items[i]) = FunctionId(items[j])

\* The first member that carries the id of member j.
FirstWithIdOf(j) ==
    CHOOSE i \in 1..j :
        /\ FunctionId(items[i]) = FunctionId(items[j])
        /\ \A k \in 1..(i - 1) : FunctionId(items[k]) # FunctionId(items[j])

DuplicateMsg ==
    "encountered duplicate extension identifiers for the same chain extension"

\* C3: when methods of an otherwise valid trait share an id, validation fails
\* with the duplicate-identifier error, located at the later method (the first
\* member that repeats an id), its `previous` part at the earliest method with
\* that id; and the location stored for an id is always that of its first
\* occurrence.
C3_DuplicateNamesLaterAndFirst ==
    /\ \A id \in DOMAIN seen_ids[1] :
          \E i \in DOMAIN items :
              /\ seen_ids[1][id] = Span(i, "item")
              /\ items[i].kind = "Method" /\ NumExtension(items[i].attrs) >= 1
              /\ FunctionId(items[i]) = id
              /\ \A k \in 1..(i - 1) :
                    (items[k].kind = "Method" /\ NumExtension(items[k].attrs) >= 1)
                        => FunctionId(items[k]) # id
    /\ (finished /\ ValidButDuplicates) =>
          /\ result[1].tag = "err"
          /\ result[1].err.msg = DuplicateMsg
          /\ \E j \in DOMAIN items :
                /\ Repeats(j)
                /\ \A k \in 1..(j - 1) : ~Repeats(k)
                /\ result[1].err.span = Span(j, "item")
                /\ result[1].err.previous = Span(FirstWithIdOf(j), "item")

\* Methods with ids 3, 5, 3: the error is at the third method, `previous` at
\* the first.
C3_Witness ==
    /\ finished /\ ValidButDuplicates
    /\ Len(items) = 3
    /\ <<FunctionId(items[1]), FunctionId(items[2]), FunctionId(items[3])>> = <<3, 5, 3>>
    /\ result[1].err.msg = DuplicateMsg
    /\ result[1].err.span = Span(3, "item")
    /\ result[1].err.previous = Span(1, "item")

\* Member i is a method without any function = N.
LacksDirective(i) == items[i].kind = "Method" /\ NumExtension(items[i].attrs) = 0

MissingMsg ==
    "missing #[ink(function = N: usize)] flag on ink! chain extension method"

\* The members before i are valid methods with distinct ids.
ValidBefore(i) ==
    /\ \A k \in 1..(i - 1) :
          Unmodified(items[k]) /\ ~items[k].receiver /\ OnlyDirective(items[k])
    /\ \A k, l \in 1..(i - 1) :
          k # l => FunctionId(items[k]) # FunctionId(items[l])

\* C4 as stated, for traits that pass the identifier lint and the property
\* checks: a trait with a method that lacks function = N fails with the
\* missing-directive error, whatever else its members are.
C4_AsStated ==
    (/\ finished /\ ~item_trait.ink_ident /\ TraitAccepted
     /\ \E i \in DOMAIN items : LacksDirective(i)) =>
        /\ result[1].tag = "err"
        /\ result[1].err.msg = MissingMsg

\* C4, amended: a trait with a method that lacks function = N always fails;
\* the error is the missing-directive error, located at that method, when the
\* checks before it pass (identifier lint, trait properties, every earlier
\* member valid with a new id) and the method has none of the modifiers
\* checked first and no ink! attribute at all.
C4_MissingDirectiveFails ==
    finished =>
        \A i \in DOMAIN items :
            LacksDirective(i) =>
                /\ result[1].tag = "err"
                /\ (/\ ~item_trait.ink_ident /\ TraitAccepted /\ ValidBefore(i)
                    /\ Unmodified(items[i]) /\ items[i].attrs = <<>>)
                      => /\ result[1].err.msg = MissingMsg
                         /\ result[1].err.span = Span(i, "item")

\* A valid method, then one without attribute: the run failed at the second
\* with the missing-directive error.
C4_Witness ==
    /\ finished
    /\ Len(items) >= 2 /\ LacksDirective(2) /\ items[2].attrs = <<>>
    /\ result[1].err.msg = MissingMsg
    /\ result[1].err.span = Span(2, "item")

\* Every member is a method that analyse_methods accepts, with a new id.
AllMembersPass ==
    /\ \A i \in DOMAIN items :
          Unmodified(items[i]) /\ ~items[i].receiver /\ OnlyDirective(items[i])
    /\ \A i, j \in DOMAIN items :
          i # j => FunctionId(items[i]) # FunctionId(items[j])

\* C5: a finished validation is either a complete ChainExtension or an error,
\* never a partial result: it is a ChainExtension only if the trait properties
\* passed and every member, in order, is a validated method with a new id,
\* and then all members are in it; an error carries no methods.
C5_CompleteOrError ==
    finished =>
        /\ result[1].tag \in {"ok", "err"}
        /\ result[1].tag = "ok" =>
              /\ TraitAccepted
              /\ AllMembersPass
              /\ MethodsAreMembers
              /\ result[1].err = NoError
        /\ result[1].tag = "err" =>
              /\ result[1].methods = <<>>
              /\ result[1].err # NoError
              /\ ~(TraitAccepted /\ ~item_trait.ink_ident /\ AllMembersPass)

\* Two valid methods were accumulated, the third member failed: an error and
\* no methods came back.
C5_Witness ==
    /\ finished
    /\ Len(methods[1]) = 2
    /\ result[1].tag = "err"
    /\ result[1].err.span.item = 3
    /\ result[1].methods = <<>>

\* The properties in the order analyse_properties checks them.
PropertyOrder == <<"unsafety", "auto_token", "generics", "vis", "supertraits">>

Violates(p) ==
    CASE p = "unsafety" -> item_trait.unsafety
      [] p = "auto_token" -> item_trait.auto_token
      [] p = "generics" -> item_trait.generics
      [] p = "vis" -> ~item_trait.vis_public
      [] p = "supertraits" -> item_trait.supertraits

FirstViolated ==
    PropertyOrder[CHOOSE k \in DOMAIN PropertyOrder :
                    /\ Violates(PropertyOrder[k])
                    /\ \A j \in 1..(k - 1) : ~Violates(PropertyOrder[j])]

\* C6 as stated: a trait that is unsafe, auto, generic, not public or has
\* supertraits fails with the error of such a property, whatever its members.
C6_AsStated ==
    (finished /\ ~TraitAccepted) =>
        /\ result[1].tag = "err"
        /\ result[1].err.span.item = 0
        /\ result[1].err.span.part \in {p \in TraitProperties : Violates(p)}

\* C6, amended: such a trait fails whatever its members, before any member is
\* matched on; the error is that of the first violated property in the order
\* unsafe, auto, generic, visibility, supertraits, unless an identifier of the
\* declaration starts with __ink_: the identifier lint runs first over the
\* whole declaration and its error is then the one reported.
C6_PropertyViolationFails ==
    (finished /\ ~TraitAccepted) =>
        /\ result[1].tag = "err"
        /\ visited[1] = <<>>
        /\ ~item_trait.ink_ident => result[1].err.span = Span(0, FirstViolated)
        /\ item_trait.ink_ident => result[1].err.span = Span(0, "ident")

\* A generic trait with an invalid member failed with the generics error.
C6_Witness ==
    /\ finished
    /\ item_trait.generics /\ ~item_trait.unsafety /\ ~item_trait.auto_token
    /\ Len(items) >= 1 /\ items[1].kind = "Const"
    /\ result[1].err.msg = "ink! chain extensions must not be generic"

ReceiverMsg == "ink! chain extension method must not have a self receiver"

\* Member i was handed to analyse_methods and has a self receiver.
ReceiverAnalysed(i) ==
    /\ \E k \in DOMAIN visited[1] : visited[1][k] = i
    /\ items[i].kind = "Method"
    /\ items[i].receiver

\* C7 as stated, for methods whose only ink! attribute argument is their
\* function = N: a method with a self receiver given to the Method Validator
\* fails with the receiver error.
C7_AsStated ==
    \A i \in DOMAIN items :
        (ReceiverAnalysed(i) /\ OnlyDirective(items[i])) =>
            /\ result[1].tag = "err"
            /\ result[1].err.msg = ReceiverMsg

\* C7, amended: a method with a self receiver given to the Method Validator
\* is rejected; the error is the receiver error when the checks made before
\* the receiver check pass (no default body, const, async, unsafe, ABI,
\* variadic, generics; function = N present and the only ink! attribute
\* argument), and otherwise the error of the first of those checks to fail.
C7_ReceiverRejected ==
    \A i \in DOMAIN items :
        ReceiverAnalysed(i) =>
            /\ result[1].tag = "err"
            /\ result[1].err.span.item = i
            /\ (Unmodified(items[i]) /\ OnlyDirective(items[i]))
                  <=> (/\ result[1].err.msg = ReceiverMsg
                       /\ result[1].err.span = Span(i, "receiver"))

\* A method whose only fault is its receiver was rejected with the receiver
\* error.
C7_Witness ==
    /\ finished
    /\ Len(items) >= 1
    /\ ReceiverAnalysed(1)
    /\ result[1].err.msg = ReceiverMsg
    /\ result[1].err.span = Span(1, "receiver")

VisitedInOrder == \A k \in DOMAIN visited[1] : visited[1][k] = k

\* C9 as stated, for the runs that reach the member pass: each member is
\* visited exactly once by the member pass.
C9_AsStated ==
    (finished /\ ~item_trait.ink_ident /\ TraitAccepted) =>
        (VisitedInOrder /\ Len(visited[1]) = Len(items))

\* C9, amended: every run ends; the member pass matches on the members in
\* declaration order, each at most once; a run that succeeds has matched on
\* every member exactly once, and a run that fails has matched on the members
\* up to the one whose error it returns and on none after it (on none at all
\* when the identifier lint or a trait property fails).
C9_TerminatesVisitingInOrder ==
    /\ <>finished
    /\ [](/\ VisitedInOrder
          /\ Len(visited[1]) <= Len(items)
          /\ (finished /\ result[1].tag = "ok") => Len(visited[1]) = Len(items)
          /\ (finished /\ result[1].tag = "err") =>
                Len(visited[1]) = result[1].err.span.item)

\* A run failed at its second member of three and never matched on the third.
C9_Witness ==
    /\ finished
    /\ Len(items) = 3
    /\ result[1].tag = "err"
    /\ visited[1] = <<1, 2>>

\* The members matched on so far, all accepted.
Processed == 1..Len(methods[1])

\* C10: while the member pass has not failed, the keys of the registry are
\* the ids of the accumulated methods, one entry per method, each key mapped
\* to the location of the method with that id, and the accumulated methods
\* are the members before the loop position, in order; no entry of the
\* registry is ever removed or overwritten.
C10_RegistryMatchesMethods ==
    /\ [](pc[1] = "analyse_items" =>
            /\ Len(methods[1]) = idx[1] - 1
            /\ \A k \in Processed :
                  /\ methods[1][k].item = items[k]
                  /\ methods[1][k].span = Span(k, "item")
                  /\ methods[1][k].id = FunctionId(items[k])
            /\ DOMAIN seen_ids[1] = {methods[1][k].id : k \in Processed}
            /\ Cardinality(DOMAIN seen_ids[1]) = Len(methods[1])
            /\ \A k \in Processed : seen_ids[1][methods[1][k].id] = methods[1][k].span)
    /\ [][\A id \in DOMAIN seen_ids[1] :
            /\ id \in DOMAIN seen_ids'[1]
            /\ seen_ids'[1][id] = seen_ids[1][id]]_vars

\* Two methods are accumulated and the registry has their two ids.
C10_Witness ==
    /\ pc[1] = "analyse_items"
    /\ Len(methods[1]) = 2
    /\ DOMAIN seen_ids[1] = {3, 5}
    /\ seen_ids[1][methods[1][2].id] = Span(2, "item")

====
